---- MODULE Spec2Model ----
(***************************************************************************)
(* Model of nzalpha/CogniFlow:                                             *)
(*   - the Telegram SSE bridge (src/mcp_server_telegram_sse.py): webhook   *)
(*     ingest, the central queue, the broadcast loop and the subscriber    *)
(*     channels, at the granularity of asyncio suspension points;          *)
(*   - the MultiMCP tool registry (src/core/session.py).                   *)
(***************************************************************************)
EXTENDS Integers, Sequences, FiniteSets, TLC

(***************************************************************************)
(* Bounds of the model and constants of the program.                       *)
(***************************************************************************)
\* number of webhook deliveries with text the bridge specification explores
MaxEvents == 3
\* number of further webhook deliveries explored once a channel is nearly full
MaxBurst == 3
\* asyncio.Queue(maxsize=10) of every subscriber channel
QueueMaxsize == 10
\* the SSE connections the model opens (each opens at most once)
Subscribers == {"s1", "s2"}
\* the broadcast task created at startup
Bcast == "bcast"

VARIABLES
    event_queue,     \* app.state.event_queue: the central FIFO (unbounded)
    clients,         \* app.state.clients: the registered subscriber channels
    lock_owner,      \* app.state.clients_lock: the task holding it, or "none"
    lock_waiters,    \* app.state.clients_lock: its FIFO of waiting tasks
    latest_message,  \* app.state.latest_message (its text; 0 for None)
    bpc,             \* broadcast_loop: where the task is suspended
    message,         \* broadcast_loop: the dequeued message
    pending,         \* broadcast_loop: what is left of list(app.state.clients)
    spc,             \* per connection: where its handler / generator is
    client_queue,    \* per connection: its bounded channel
    delivered,       \* per connection: the SSE frames its generator yielded
    last_update,     \* the payload of the last webhook request
    response,        \* the answer to the last webhook request
    ingested,        \* history: the events put on the central queue, in order
    fanned,          \* history: the number of fan-out passes begun
    reg_ingested,    \* history: per connection, Len(ingested) at registration
    reg_fanned,      \* history: per connection, the value of fanned at registration
    server_configs,  \* MultiMCP.server_configs: the ordered backend configs
    tool_map,        \* MultiMCP.tool_map: a dict, kept in insertion order
    ipc,             \* initialize: "idle", "running", "done" or "raised"
    idx,             \* initialize: the index of the config being processed
    stage,           \* _register_stdio_server: "none", "handshake" or "list"
    procs,           \* the number of live tool subprocesses
    runs,            \* the number of initialize calls started
    discovery,       \* history: per config, what this run's discovery gave
    calls,           \* per caller: its call_tool coroutine, where it is and its locals
    listed           \* what the last list_all_tools / get_all_tools returned

bridge_vars == <<event_queue, clients, lock_owner, lock_waiters, latest_message,
                 bpc, message, pending, spc, client_queue, delivered,
                 last_update, response, ingested, fanned, reg_ingested,
                 reg_fanned>>

registry_vars == <<server_configs, tool_map, ipc, idx, stage, procs, runs, discovery,
                   calls, listed>>

vars == <<bridge_vars, registry_vars>>

(***************************************************************************)
(* Webhook payloads.  A text is an integer: 0 stands for a missing text    *)
(* (None), -1 for the empty string, k > 0 for a non-empty string.          *)
(***************************************************************************)
NoText == 0
EmptyText == 0 - 1

\* a message object of an update: kind "absent" (key missing or null),
\* "empty" ({}), "object" (a non-empty dict) or "scalar" (a non-dict truthy value)
AbsentMsg == [kind |-> "absent", text |-> NoText, username |-> "", first_name |-> "", id |-> ""]

MsgObject(t, u, f, i) ==
    [kind |-> "object", text |-> t, username |-> u, first_name |-> f, id |-> i]

\* the body of a request: json "invalid" (syntax error), "object" (a dict) or
\* "other" (valid JSON that is no dict: a list, a string, a number, null)
Update(j, m, e) == [json |-> j, message |-> m, edited_message |-> e]

TextUpdate(k) == Update("object", MsgObject(k, "alice", "", ""), AbsentMsg)

\* the value of Python's `a or b` on message objects: a unless it is falsy
Truthy(m) == m.kind \in {"object", "scalar"}

NoEvent == [sender |-> "", text |-> NoText, raw |-> Update("object", AbsentMsg, AbsentMsg)]

\* extract_text_message: "none" (returns None), "event" or "raise" (AttributeError)
ExtractKind(update) ==
    IF update.json # "object" THEN "raise"
    ELSE LET m == IF Truthy(update.message) THEN update.message
                  ELSE IF Truthy(update.edited_message) THEN update.edited_message
                  ELSE [AbsentMsg EXCEPT !.kind = "empty"]
         IN  IF m.kind = "scalar" THEN "raise"
             ELSE IF m.text = NoText \/ m.text = EmptyText THEN "none"
             ELSE "event"

extract_text_message(update) ==
    LET m == IF Truthy(update.message) THEN update.message ELSE update.edited_message
        sender == IF m.username # "" THEN m.username
                  ELSE IF m.first_name # "" THEN m.first_name
                  ELSE IF m.id # "" THEN m.id
                  ELSE "unknown"
    IN  [sender |-> sender, text |-> m.text, raw |-> update]

(***************************************************************************)
(* asyncio.Lock: acquire() takes a free lock at once when nobody waits,    *)
(* otherwise the task joins the FIFO of waiters; release() wakes the first *)
(* waiter, and nobody can overtake it.                                     *)
(***************************************************************************)
\* variant: a lock that does not exclude the task holding it
LockFreeIgnoringOwner == lock_waiters = <<>>

LockFree == lock_owner = "none" /\ lock_waiters = <<>>

\* variant: the first waiter goes on while the lock is still held
LockGrantedWhileHeld(t) == lock_waiters # <<>> /\ Head(lock_waiters) = t

LockGranted(t) == lock_owner = "none" /\ lock_waiters # <<>> /\ Head(lock_waiters) = t

(***************************************************************************)
(* app.state.event_queue = asyncio.Queue(): maxsize 0, so full() is never  *)
(* true and put() never suspends; get() removes and returns the oldest     *)
(* item.                                                                   *)
(***************************************************************************)
\* variant: a central queue created with maxsize=1
EventQueueFullBounded(q) == Len(q) >= 1

EventQueueFull(q) == FALSE

\* variant: a LIFO queue, get() returns the newest item
QueueGetNewest(q) == [item |-> q[Len(q)], rest |-> SubSeq(q, 1, Len(q) - 1)]

\* variant: the item is read but left on the queue
QueueGetPeek(q) == [item |-> Head(q), rest |-> q]

QueueGet(q) == [item |-> Head(q), rest |-> Tail(q)]

(***************************************************************************)
(* telegram_webhook.  request.json() raises JSONDecodeError on a syntax    *)
(* error (400); an AttributeError of extract_text_message on a body that   *)
(* is no dict is not handled (500).  After the put the handler starts      *)
(* agent.py with subprocess.Popen: a failure to start it is caught and     *)
(* logged, and neither outcome touches app.state or the response, so the   *)
(* spawned agent is not part of the state.  put() on the unbounded queue   *)
(* does not suspend, so the handler is one step.                           *)
(***************************************************************************)
telegram_webhook(update) ==
    /\ UNCHANGED registry_vars
    /\ ExtractKind(update) = "event" => ~EventQueueFull(event_queue)
    /\ last_update' = update
    /\ IF update.json = "invalid"
       THEN /\ response' = "400"
            /\ UNCHANGED <<event_queue, latest_message, ingested>>
       ELSE IF ExtractKind(update) = "raise"
       THEN /\ response' = "500"
            /\ UNCHANGED <<event_queue, latest_message, ingested>>
       ELSE IF ExtractKind(update) = "none"
       THEN /\ response' = "200 ignored"
            /\ UNCHANGED <<event_queue, latest_message, ingested>>
       ELSE LET extracted == extract_text_message(update)
            IN  /\ latest_message' = extracted.text
                /\ event_queue' = Append(event_queue, extracted)
                /\ ingested' = Append(ingested, extracted)
                /\ response' = "200 ok"
    /\ UNCHANGED <<clients, lock_owner, lock_waiters, bpc, message, pending,
                   spc, client_queue, delivered, fanned, reg_ingested, reg_fanned>>

Ingest ==
    /\ Len(ingested) < MaxEvents
    /\ telegram_webhook(TextUpdate(Len(ingested) + 1))

BridgeInit ==
    /\ event_queue = <<>>
    /\ clients = {}
    /\ lock_owner = "none"
    /\ lock_waiters = <<>>
    /\ latest_message = NoText
    /\ bpc = "get"
    /\ message = NoEvent
    /\ pending = <<>>
    /\ spc = [s \in Subscribers |-> "new"]
    /\ client_queue = [s \in Subscribers |-> <<>>]
    /\ delivered = [s \in Subscribers |-> <<>>]
    /\ last_update = Update("object", AbsentMsg, AbsentMsg)
    /\ response = "none"
    /\ ingested = <<>>
    /\ fanned = 0
    /\ reg_ingested = [s \in Subscribers |-> 0]
    /\ reg_fanned = [s \in Subscribers |-> 0]

\* the coroutines that call tools on the one MultiMCP
Callers == {"c1", "c2"}

\* self.tool_map.get(tool_name) of a name that is not a key: None
NoEntry ==
    [name |-> "", transport |-> "", endpoint |-> "", method |-> "",
     config |-> [script |-> "", host |-> "", tools |-> <<>>]]

NoRequest == [verb |-> "", url |-> "", params |-> "", json |-> ""]

NoResult == [content |-> [kind |-> "none", text |-> "", items |-> <<>>]]

\* a caller that has not called: pc is where the coroutine is ("idle";
\* suspended in "handshake", "awaiting" or "http"; ended "returned" or
\* "raised"), proc the subprocess of its stdio_client ("none", "live" or
\* "dead"), request / status the HTTP request it sent and how that was
\* answered ("network" for no answer), result / error what the call gave
\* its caller; spawns, sends and requests count what this call did so far
NoCall ==
    [pc |-> "idle", tool |-> "", arguments |-> "", entry |-> NoEntry,
     proc |-> "none", request |-> NoRequest, status |-> "", result |-> NoResult,
     error |-> "",
     spawns |-> 0, sends |-> 0, requests |-> 0]

\* MultiMCP(server_configs) as constructed: an empty tool_map, nothing running
Constructed(configs) ==
    /\ calls = [c \in Callers |-> NoCall]
    /\ listed = [op |-> "none", value |-> <<>>]
    /\ server_configs = configs
    /\ tool_map = <<>>
    /\ ipc = "idle"
    /\ idx = 0
    /\ stage = "none"
    /\ procs = 0
    /\ runs = 0
    /\ discovery = <<>>

Init == BridgeInit /\ Constructed(<<>>)

(***************************************************************************)
(* broadcast_loop.  The task is suspended at                               *)
(*   "get"     await app.state.event_queue.get()                           *)
(*   "lock"    async with app.state.clients_lock (queued behind a waiter)  *)
(*   "fanout"  inside the for loop, holding the lock; Head(pending) is the *)
(*             channel of the next put, which suspends while it is full.   *)
(***************************************************************************)
\* variant: a pass that stops after its first channel
ListOfFirst(S) == IF S = {} THEN {<<>>} ELSE {<<c>> : c \in S}

\* list(app.state.clients): the set in one of its iteration orders
ListOf(S) ==
    {q \in [1..Cardinality(S) -> S] : \A i, j \in 1..Cardinality(S) : q[i] = q[j] => i = j}

\* message = await event_queue.get(), then async with clients_lock
BroadcastGet ==
    /\ UNCHANGED registry_vars
    /\ bpc = "get"
    /\ event_queue # <<>>
    /\ message' = QueueGet(event_queue).item
    /\ event_queue' = QueueGet(event_queue).rest
    /\ IF LockFree
       THEN /\ \E order \in ListOf(clients) :
                 /\ fanned' = fanned + 1
                 /\ IF order = <<>>
                    THEN lock_owner' = "none" /\ bpc' = "get" /\ pending' = <<>>
                    ELSE lock_owner' = Bcast /\ bpc' = "fanout" /\ pending' = order
            /\ UNCHANGED lock_waiters
       ELSE /\ lock_waiters' = Append(lock_waiters, Bcast)
            /\ bpc' = "lock"
            /\ UNCHANGED <<lock_owner, pending, fanned>>
    /\ UNCHANGED <<clients, latest_message, spc, client_queue, delivered,
                   last_update, response, ingested, reg_ingested, reg_fanned>>

\* the lock is handed to the waiting broadcast task
BroadcastAcquire ==
    /\ UNCHANGED registry_vars
    /\ bpc = "lock"
    /\ LockGranted(Bcast)
    /\ lock_waiters' = Tail(lock_waiters)
    /\ \E order \in ListOf(clients) :
          /\ fanned' = fanned + 1
          /\ IF order = <<>>
             THEN lock_owner' = "none" /\ bpc' = "get" /\ pending' = <<>>
             ELSE lock_owner' = Bcast /\ bpc' = "fanout" /\ pending' = order
    /\ UNCHANGED <<event_queue, clients, latest_message, message, spc, client_queue,
                   delivered, last_update, response, ingested, reg_ingested,
                   reg_fanned>>

\* variant: channels without a bound (put_nowait on an unbounded queue)
PutReadyAlways(q) == TRUE

\* variant: put suspends only once the queue is over its maxsize
PutReadyOverfull(q) == Len(q) <= QueueMaxsize

\* asyncio.Queue.put suspends while the queue is full
PutReady(q) == Len(q) < QueueMaxsize

\* await client_queue.put(message); after the last put the lock is released
\* and event_queue.task_done() is called, with no suspension in between
BroadcastPut ==
    /\ UNCHANGED registry_vars
    /\ bpc = "fanout"
    /\ pending # <<>>
    /\ LET c == Head(pending)
       IN  /\ PutReady(client_queue[c])
           /\ client_queue' = [client_queue EXCEPT ![c] = Append(@, message)]
    /\ pending' = Tail(pending)
    /\ IF Tail(pending) = <<>>
       THEN lock_owner' = "none" /\ bpc' = "get"
       ELSE UNCHANGED <<lock_owner, bpc>>
    /\ UNCHANGED <<event_queue, clients, lock_waiters, latest_message, message, spc,
                   delivered, last_update, response, ingested, fanned, reg_ingested,
                   reg_fanned>>

(***************************************************************************)
(* sse_events and its event_generator.  A connection is                    *)
(*   "new"          not opened yet                                         *)
(*   "registering"  in sse_events, waiting for the lock                    *)
(*   "streaming"    in the generator's loop, at await client_queue.get()   *)
(*   "closing"      in the generator's finally, waiting for the lock       *)
(*   "closed"       the generator has ended                                *)
(***************************************************************************)
\* app.state.clients.add(client_queue), under the lock
AddClient(s) ==
    /\ clients' = clients \cup {s}
    /\ spc' = [spc EXCEPT ![s] = "streaming"]
    /\ reg_ingested' = [reg_ingested EXCEPT ![s] = Len(ingested)]
    /\ reg_fanned' = [reg_fanned EXCEPT ![s] = fanned]

\* app.state.clients.discard(client_queue), under the lock
DiscardClient(s) ==
    /\ clients' = clients \ {s}
    /\ spc' = [spc EXCEPT ![s] = "closed"]
    /\ UNCHANGED <<reg_ingested, reg_fanned>>

\* GET /events: a new queue, then async with clients_lock: clients.add
sse_events(s) ==
    /\ UNCHANGED registry_vars
    /\ spc[s] = "new"
    /\ IF LockFree
       THEN AddClient(s) /\ UNCHANGED lock_waiters
       ELSE /\ lock_waiters' = Append(lock_waiters, s)
            /\ spc' = [spc EXCEPT ![s] = "registering"]
            /\ UNCHANGED <<clients, reg_ingested, reg_fanned>>
    /\ UNCHANGED <<event_queue, lock_owner, latest_message, bpc, message, pending,
                   client_queue, delivered, last_update, response, ingested, fanned>>

\* the lock is handed to a connection waiting in sse_events
Register(s) ==
    /\ UNCHANGED registry_vars
    /\ spc[s] = "registering"
    /\ LockGranted(s)
    /\ lock_waiters' = Tail(lock_waiters)
    /\ AddClient(s)
    /\ UNCHANGED <<event_queue, lock_owner, latest_message, bpc, message, pending,
                   client_queue, delivered, last_update, response, ingested, fanned>>

\* json.dumps({"query": message["text"]}) framed as one data: record
Frame(msg) == [query |-> msg.text]

\* message = await client_queue.get(); yield the frame
Read(s) ==
    /\ UNCHANGED registry_vars
    /\ spc[s] = "streaming"
    /\ client_queue[s] # <<>>
    /\ delivered' = [delivered EXCEPT ![s] = Append(@, Frame(Head(client_queue[s])))]
    /\ client_queue' = [client_queue EXCEPT ![s] = Tail(@)]
    /\ UNCHANGED <<event_queue, clients, lock_owner, lock_waiters, latest_message, bpc,
                   message, pending, spc, last_update, response, ingested, fanned,
                   reg_ingested, reg_fanned>>

\* the client disconnects or the stream is cancelled: the generator's finally
\* runs async with clients_lock: clients.discard
Disconnect(s) ==
    /\ UNCHANGED registry_vars
    /\ spc[s] = "streaming"
    /\ IF LockFree
       THEN DiscardClient(s) /\ UNCHANGED lock_waiters
       ELSE /\ lock_waiters' = Append(lock_waiters, s)
            /\ spc' = [spc EXCEPT ![s] = "closing"]
            /\ UNCHANGED <<clients, reg_ingested, reg_fanned>>
    /\ UNCHANGED <<event_queue, lock_owner, latest_message, bpc, message, pending,
                   client_queue, delivered, last_update, response, ingested, fanned>>

\* the lock is handed to a connection waiting in the generator's finally
Unregister(s) ==
    /\ UNCHANGED registry_vars
    /\ spc[s] = "closing"
    /\ LockGranted(s)
    /\ lock_waiters' = Tail(lock_waiters)
    /\ DiscardClient(s)
    /\ UNCHANGED <<event_queue, lock_owner, latest_message, bpc, message, pending,
                   client_queue, delivered, last_update, response, ingested, fanned>>

Next ==
    \/ Ingest
    \/ BroadcastGet
    \/ BroadcastAcquire
    \/ BroadcastPut
    \/ \E s \in Subscribers : sse_events(s)
    \/ \E s \in Subscribers : Register(s)
    \/ \E s \in Subscribers : Read(s)
    \/ \E s \in Subscribers : Disconnect(s)
    \/ \E s \in Subscribers : Unregister(s)

Spec == Init /\ [][Next]_vars

(***************************************************************************)
(* The bridge with a nearly full channel.  InitBurst is the state Spec     *)
(* reaches (with a larger MaxEvents) by sse_events("s1") followed by       *)
(* PreFilled rounds of Ingest, BroadcastGet, BroadcastPut while the client *)
(* of s1 reads nothing: s1 holds PreFilled unread events.                  *)
(***************************************************************************)
PreFilled == QueueMaxsize - 1

Backlog(k) == [i \in 1..k |-> extract_text_message(TextUpdate(i))]

InitBurst ==
    /\ event_queue = <<>>
    /\ clients = {"s1"}
    /\ lock_owner = "none"
    /\ lock_waiters = <<>>
    /\ latest_message = PreFilled
    /\ bpc = "get"
    /\ message = Backlog(PreFilled)[PreFilled]
    /\ pending = <<>>
    /\ spc = [s \in Subscribers |-> IF s = "s1" THEN "streaming" ELSE "new"]
    /\ client_queue = [s \in Subscribers |-> IF s = "s1" THEN Backlog(PreFilled) ELSE <<>>]
    /\ delivered = [s \in Subscribers |-> <<>>]
    /\ last_update = TextUpdate(PreFilled)
    /\ response = "200 ok"
    /\ ingested = Backlog(PreFilled)
    /\ fanned = PreFilled
    /\ reg_ingested = [s \in Subscribers |-> 0]
    /\ reg_fanned = [s \in Subscribers |-> 0]
    /\ Constructed(<<>>)

IngestBurst ==
    /\ Len(ingested) < PreFilled + MaxBurst
    /\ telegram_webhook(TextUpdate(Len(ingested) + 1))

NextBurst ==
    \/ IngestBurst
    \/ BroadcastGet
    \/ BroadcastAcquire
    \/ BroadcastPut
    \/ \E s \in Subscribers : sse_events(s)
    \/ \E s \in Subscribers : Register(s)
    \/ \E s \in Subscribers : Read(s)
    \/ \E s \in Subscribers : Disconnect(s)
    \/ \E s \in Subscribers : Unregister(s)

SpecBurst == InitBurst /\ [][NextBurst]_vars

(***************************************************************************)
(* The webhook on arbitrary request bodies, with nobody connected.         *)
(***************************************************************************)
\* number of events the webhook specification queues
MaxWebhook == 2

EmptyMsg == [AbsentMsg EXCEPT !.kind = "empty"]

ScalarMsg == [AbsentMsg EXCEPT !.kind = "scalar"]

Senders == {<<"alice", "", "">>, <<"", "Al", "">>, <<"", "", "7">>, <<"", "", "">>}

Messages ==
    {AbsentMsg, EmptyMsg, ScalarMsg}
      \cup {MsgObject(t, n[1], n[2], n[3]) : t \in {NoText, EmptyText, 1}, n \in Senders}

EditedMessages == {AbsentMsg, MsgObject(2, "bob", "", "")}

Updates ==
    {Update("invalid", AbsentMsg, AbsentMsg), Update("other", AbsentMsg, AbsentMsg)}
      \cup {Update("object", m, e) : m \in Messages, e \in EditedMessages}

Webhook(update) ==
    /\ ExtractKind(update) = "event" => Len(ingested) < MaxWebhook
    /\ telegram_webhook(update)

NextWebhook ==
    \/ \E update \in Updates : Webhook(update)
    \/ BroadcastGet

SpecWebhook == Init /\ [][NextWebhook]_vars

(***************************************************************************)
(* MultiMCP (src/core/session.py).  A backend config is a record           *)
(*   script  the "script" key ("" when the key is absent)                  *)
(*   host    the "host" key ("" when the key is absent)                    *)
(*   tools   the "tools" list of an HTTP backend, each tool definition a   *)
(*           record name / endpoint / method ("" for a missing key).       *)
(* tool_map is a Python dict: a sequence of entries in insertion order,    *)
(* with at most one entry per name.                                        *)
(***************************************************************************)
\* number of backend configs of a MultiMCP
MaxConfigs == 2
\* number of initialize calls on one MultiMCP
MaxRuns == 2

ToolNames == {"add", "mail"}

ToolDef(n, e, m) == [name |-> n, endpoint |-> e, method |-> m]

StdioConfig(script) == [script |-> script, host |-> "", tools |-> <<>>]

HttpConfig(host, tools) == [script |-> "", host |-> host, tools |-> tools]

ConfigPool ==
    { StdioConfig("a.py"),
      StdioConfig("b.py"),
      HttpConfig("http://h1", <<ToolDef("add", "/add", "get"), ToolDef("mail", "", "POST")>>),
      HttpConfig("http://h2", <<ToolDef("mail", "/send", ""), ToolDef("", "/x", "GET"),
                                ToolDef("mail", "/mail", "GET")>>),
      HttpConfig("http://h3", <<>>),
      [script |-> "", host |-> "", tools |-> <<ToolDef("add", "/add", "POST")>>] }

ConfigLists == UNION {[1..n -> ConfigPool] : n \in 0..MaxConfigs}

\* what session.list_tools() of a healthy backend may answer
ToolLists == UNION {[1..n -> ToolNames] : n \in 0..2}

\* str.upper() on the method names that occur
Upper(m) == IF m = "get" THEN "GET" ELSE IF m = "post" THEN "POST" ELSE m

Names(m) == {m[i].name : i \in 1..Len(m)}

\* the entry of a name that is in the map
EntryOf(m, n) == m[CHOOSE i \in 1..Len(m) : m[i].name = n]

\* variant: m.setdefault(name, entry), an existing entry is kept
SetDefault(m, e) == IF e.name \in Names(m) THEN m ELSE Append(m, e)

\* m[name] = entry: an existing key keeps its place and takes the new value
SetItem(m, e) ==
    IF e.name \in Names(m)
    THEN [i \in 1..Len(m) |-> IF m[i].name = e.name THEN e ELSE m[i]]
    ELSE Append(m, e)

RECURSIVE SetItems(_, _)
SetItems(m, entries) ==
    IF entries = <<>> THEN m
    ELSE SetItems(SetItem(m, Head(entries)), Tail(entries))

\* the entry _register_stdio_server writes for a discovered tool
StdioEntry(config, name) ==
    [name |-> name, transport |-> "stdio", config |-> config,
     endpoint |-> "", method |-> ""]

\* the entry _register_http_server writes for a tool definition
HttpEntry(config, def) ==
    [name |-> def.name, transport |-> "http", config |-> config,
     endpoint |-> def.endpoint,
     method |-> Upper(IF def.method = "" THEN "POST" ELSE def.method)]

\* variant: only the name of a tool definition is looked at
ValidDefNameOnly(def) == def.name # ""

\* tool definitions lacking a name or an endpoint are skipped
ValidDef(def) == def.name # "" /\ def.endpoint # ""

\* variant: only the outer try is there
CaughtSpawnOnly(kind) == kind = "spawn"

\* the failures of a discovery that an except clause of
\* _register_stdio_server catches: "spawn" is raised by stdio_client (outer
\* try), "handshake" by session.initialize and "protocol" by
\* session.list_tools (inner try)
Caught(kind) == kind \in {"spawn", "handshake", "protocol"}

Pending(i) == [status |-> "pending", tools |-> <<>>]

\* initialize moves on to the next config, or returns after the last one
NextConfig ==
    /\ stage' = "none"
    /\ IF idx < Len(server_configs)
       THEN idx' = idx + 1 /\ ipc' = "running"
       ELSE idx' = idx /\ ipc' = "done"

\* variant: the except clause drops the entries of the backend that failed
AfterExceptPurge(m, config) == SelectSeq(m, LAMBDA e : e.config # config)

\* the dict after an except clause of _register_stdio_server: it only prints
AfterExcept(m, config) == m

\* a discovery fails with an exception of the given kind: the subprocess, if
\* one was spawned, is torn down by stdio_client's exit; a caught exception
\* is printed and the backend is left out, an uncaught one leaves initialize
DiscoveryFails(kind) ==
    /\ procs' = IF stage = "none" THEN procs ELSE procs - 1
    /\ discovery' = [discovery EXCEPT ![idx] = [status |-> "failed", tools |-> <<>>]]
    /\ IF Caught(kind)
       THEN NextConfig
       ELSE ipc' = "raised" /\ stage' = "none" /\ idx' = idx
    /\ tool_map' = AfterExcept(tool_map, server_configs[idx])
    /\ UNCHANGED <<server_configs, runs>>

\* await multi_mcp.initialize()
initialize ==
    /\ UNCHANGED <<bridge_vars, calls, listed>>
    /\ ipc \in {"idle", "done"}
    /\ runs < MaxRuns
    /\ runs' = runs + 1
    /\ discovery' = [i \in 1..Len(server_configs) |-> Pending(i)]
    /\ stage' = "none"
    /\ IF server_configs = <<>>
       THEN ipc' = "done" /\ idx' = 0
       ELSE ipc' = "running" /\ idx' = 1
    /\ UNCHANGED <<server_configs, tool_map, procs>>

\* _register_stdio_server: async with stdio_client(params) spawns the server
StdioSpawn ==
    /\ UNCHANGED <<bridge_vars, calls, listed>>
    /\ ipc = "running" /\ stage = "none"
    /\ server_configs[idx].script # ""
    /\ \/ /\ procs' = procs + 1
          /\ stage' = "handshake"
          /\ UNCHANGED <<server_configs, tool_map, ipc, idx, runs, discovery>>
       \/ DiscoveryFails("spawn")

\* _register_stdio_server: await session.initialize()
StdioHandshake ==
    /\ UNCHANGED <<bridge_vars, calls, listed>>
    /\ ipc = "running" /\ stage = "handshake"
    /\ \/ /\ stage' = "list"
          /\ UNCHANGED <<server_configs, tool_map, ipc, idx, procs, runs, discovery>>
       \/ DiscoveryFails("handshake")

\* _register_stdio_server: tools = await session.list_tools(), one entry per
\* tool, then the session and the subprocess are closed
StdioListTools ==
    /\ UNCHANGED <<bridge_vars, calls, listed>>
    /\ ipc = "running" /\ stage = "list"
    /\ \/ \E tools \in ToolLists :
             /\ tool_map' = SetItems(tool_map,
                   [i \in 1..Len(tools) |-> StdioEntry(server_configs[idx], tools[i])])
             /\ discovery' = [discovery EXCEPT ![idx] = [status |-> "ok", tools |-> tools]]
             /\ procs' = procs - 1
             /\ NextConfig
             /\ UNCHANGED <<server_configs, runs>>
       \/ DiscoveryFails("protocol")

\* _register_http_server: the tool definitions of the static config
register_http_server ==
    /\ UNCHANGED <<bridge_vars, calls, listed>>
    /\ ipc = "running" /\ stage = "none"
    /\ server_configs[idx].script = "" /\ server_configs[idx].host # ""
    /\ tool_map' = SetItems(tool_map,
          LET valid == SelectSeq(server_configs[idx].tools, ValidDef)
          IN  [i \in 1..Len(valid) |-> HttpEntry(server_configs[idx], valid[i])])
    /\ discovery' = [discovery EXCEPT ![idx] = [status |-> "static", tools |-> <<>>]]
    /\ NextConfig
    /\ UNCHANGED <<server_configs, procs, runs>>

\* initialize: a config with neither "script" nor "host" is skipped
SkipConfig ==
    /\ UNCHANGED <<bridge_vars, calls, listed>>
    /\ ipc = "running" /\ stage = "none"
    /\ server_configs[idx].script = "" /\ server_configs[idx].host = ""
    /\ discovery' = [discovery EXCEPT ![idx] = [status |-> "skipped", tools |-> <<>>]]
    /\ NextConfig
    /\ UNCHANGED <<server_configs, tool_map, procs, runs>>

InitRegistry == BridgeInit /\ \E configs \in ConfigLists : Constructed(configs)

NextRegistry ==
    \/ initialize
    \/ StdioSpawn
    \/ StdioHandshake
    \/ StdioListTools
    \/ register_http_server
    \/ SkipConfig

SpecRegistry == InitRegistry /\ [][NextRegistry]_vars

(***************************************************************************)
(* MultiMCP.call_tool, list_all_tools and get_all_tools.  A call runs up   *)
(* to its first suspension in one step: the lookup, then either the spawn  *)
(* of stdio_client or the sending of the HTTP request.  A Stdio call is    *)
(* then suspended in session.initialize ("handshake") and in               *)
(* session.call_tool ("awaiting"), an HTTP call in client.get / post       *)
(* ("http").  Arguments and texts are strings.                             *)
(***************************************************************************)
\* the names a caller asks for: the tool names and one that no backend exposes
CallNames == ToolNames \cup {"nope"}

Arguments == {"x=1"}

\* the status classes of an HTTP response
Statuses == {"2xx", "3xx", "4xx", "5xx"}

\* the backend configs of the MultiMCP whose tools are called: an HTTP
\* backend with a GET tool and a tool without a method, a config of neither
\* shape, then a Stdio backend that may expose the same names
CallConfigLists ==
    { <<HttpConfig("http://h1/", <<ToolDef("add", "/add", "get"), ToolDef("mail", "/send", "")>>),
        [script |-> "", host |-> "", tools |-> <<>>],
        StdioConfig("a.py")>> }

\* variant: a name that is not a key falls back to the first entry
LookupFirst(m, n) ==
    IF n \in Names(m) THEN EntryOf(m, n) ELSE IF m # <<>> THEN m[1] ELSE NoEntry

\* self.tool_map.get(tool_name)
Lookup(m, n) == IF n \in Names(m) THEN EntryOf(m, n) ELSE NoEntry

\* variant: the entry is taken out of the dict, tool_map.pop(tool_name, None)
AfterPop(m, n) == SelectSeq(m, LAMBDA e : e.name # n)

\* the dict after tool_map.get(tool_name): get does not write
AfterGet(m, n) == m

\* host.rstrip("/") on the hosts that occur
RStrip(host) == IF host = "http://h1/" THEN "http://h1" ELSE host

\* variant: the arguments always go into a JSON body
HttpRequestPost(entry, arguments) ==
    [verb |-> "POST", url |-> RStrip(entry.config.host) \o entry.endpoint,
     params |-> "", json |-> arguments]

\* the request of the HTTP branch: client.get(url, params=arguments) for the
\* method GET, client.post(url, json=arguments) for every other method
HttpRequest(entry, arguments) ==
    LET url == RStrip(entry.config.host) \o entry.endpoint
    IN  IF Upper(entry.method) = "GET"
        THEN [verb |-> "GET", url |-> url, params |-> arguments, json |-> ""]
        ELSE [verb |-> "POST", url |-> url, params |-> "", json |-> arguments]

\* variant: the status of the response is not looked at
IsSuccessAny(status) == TRUE

\* response.raise_for_status() raises unless the status is 2xx
IsSuccess(status) == status = "2xx"

\* SimpleNamespace(content=SimpleNamespace(text=response.text))
HttpEnvelope(text) == [content |-> [kind |-> "namespace", text |-> text, items |-> <<>>]]

TextContent(text) == [type |-> "text", text |-> text]

\* what session.call_tool returns, handed on as it is: a CallToolResult,
\* whose content is a list of content items
StdioResult(items) == [content |-> [kind |-> "list", text |-> "", items |-> items]]

\* what the server run from a script may answer a call of a tool
Answers(script, tool) == {<<TextContent(script \o ":" \o tool)>>, <<>>}

\* variant: the subprocess is terminated after the result is there, not in
\* a context manager
StdioExitOnReturn(proc, path) == IF proc = "live" /\ path = "return" THEN 1 ELSE 0

\* leaving "async with stdio_client(params)" terminates the subprocess, on
\* every path ("return", "raise" or "cancel"): the number of live
\* subprocesses it ends
StdioExit(proc, path) == IF proc = "live" THEN 1 ELSE 0

\* variant: one pooled subprocess serves all calls
UsersShared(c) == Callers

\* the calls served by the subprocess that the call of c spawned
Users(c) == {c}

\* variant: a failed HTTP request is sent once more
RaisedRetry(call, error) ==
    IF call.pc = "http" /\ call.requests < 2
    THEN [call EXCEPT !.requests = @ + 1]
    ELSE [call EXCEPT !.pc = "raised", !.error = error, !.proc = "none"]

\* the call ends with an exception raised to its caller
Raised(call, error) == [call EXCEPT !.pc = "raised", !.error = error, !.proc = "none"]

\* the call ends with a result returned to its caller
Returned(call, result) == [call EXCEPT !.pc = "returned", !.result = result, !.proc = "none"]

\* await multi_mcp.call_tool(tool_name, arguments), up to its first suspension
call_tool(c, tool_name, arguments) ==
    /\ UNCHANGED bridge_vars
    /\ calls[c].pc \in {"idle", "returned", "raised"}
    /\ LET entry == Lookup(tool_map, tool_name)
           call == [NoCall EXCEPT !.tool = tool_name, !.arguments = arguments,
                                  !.entry = entry]
       IN  IF entry = NoEntry
           THEN /\ calls' = [calls EXCEPT ![c] = Raised(call, "UnknownTool")]
                /\ procs' = procs
           ELSE IF entry.transport = "stdio"
           THEN \/ /\ calls' = [calls EXCEPT ![c] =
                         [call EXCEPT !.pc = "handshake", !.proc = "live", !.spawns = 1]]
                   /\ procs' = procs + 1
                \/ /\ calls' = [calls EXCEPT ![c] =
                         Raised([call EXCEPT !.spawns = 1], "TransportCallFailure")]
                   /\ procs' = procs
           ELSE IF entry.transport = "http"
           THEN /\ procs' = procs
                /\ IF entry.config.host = "" \/ entry.endpoint = ""
                   THEN calls' = [calls EXCEPT ![c] = Raised(call, "ValueError")]
                   ELSE calls' = [calls EXCEPT ![c] =
                           [call EXCEPT !.pc = "http", !.requests = 1,
                                        !.request = HttpRequest(entry, arguments)]]
           ELSE /\ calls' = [calls EXCEPT ![c] = Raised(call, "ValueError")]
                /\ procs' = procs
    /\ tool_map' = AfterGet(tool_map, tool_name)
    /\ UNCHANGED <<server_configs, ipc, idx, stage, runs, discovery, listed>>

\* call_tool, Stdio branch: await session.initialize(), then the call
\* request is sent; the handshake fails when the subprocess is dead
StdioCallHandshake(c) ==
    /\ UNCHANGED bridge_vars
    /\ calls[c].pc = "handshake"
    /\ \/ /\ calls[c].proc = "live"
          /\ calls' = [calls EXCEPT ![c] = [@ EXCEPT !.pc = "awaiting", !.sends = 1]]
          /\ procs' = procs
       \/ /\ calls' = [calls EXCEPT ![c] = Raised(@, "TransportCallFailure")]
          /\ procs' = procs - StdioExit(calls[c].proc, "raise")
    /\ UNCHANGED <<server_configs, tool_map, ipc, idx, stage, runs, discovery, listed>>

\* call_tool, Stdio branch: return await session.call_tool(tool_name,
\* arguments); the request fails when the subprocess is dead
StdioCallReturn(c) ==
    /\ UNCHANGED bridge_vars
    /\ calls[c].pc = "awaiting"
    /\ \/ /\ calls[c].proc = "live"
          /\ \E items \in Answers(calls[c].entry.config.script, calls[c].tool) :
                calls' = [calls EXCEPT ![c] = Returned(@, StdioResult(items))]
          /\ procs' = procs - StdioExit(calls[c].proc, "return")
       \/ /\ calls' = [calls EXCEPT ![c] = Raised(@, "TransportCallFailure")]
          /\ procs' = procs - StdioExit(calls[c].proc, "raise")
    /\ UNCHANGED <<server_configs, tool_map, ipc, idx, stage, runs, discovery, listed>>

\* the subprocess that the call of c spawned is killed while the call runs
Kill(c) ==
    /\ UNCHANGED bridge_vars
    /\ calls[c].pc \in {"handshake", "awaiting"}
    /\ calls[c].proc = "live"
    /\ LET hit == {d \in Users(c) : calls[d].proc = "live"}
       IN  /\ calls' = [d \in Callers |->
                          IF d \in hit THEN [calls[d] EXCEPT !.proc = "dead"] ELSE calls[d]]
           /\ procs' = procs - Cardinality(hit)
    /\ UNCHANGED <<server_configs, tool_map, ipc, idx, stage, runs, discovery, listed>>

\* the task of a call is cancelled at its suspension point
Cancel(c) ==
    /\ UNCHANGED bridge_vars
    /\ calls[c].pc \in {"handshake", "awaiting", "http"}
    /\ calls' = [calls EXCEPT ![c] = Raised(@, "Cancelled")]
    /\ procs' = procs - StdioExit(calls[c].proc, "cancel")
    /\ UNCHANGED <<server_configs, tool_map, ipc, idx, stage, runs, discovery, listed>>

\* call_tool, HTTP branch: the request is answered with a status, or fails
\* on the network; httpx.HTTPError becomes RuntimeError, a 2xx response is
\* wrapped
HttpRespond(c) ==
    /\ UNCHANGED bridge_vars
    /\ calls[c].pc = "http"
    /\ \/ \E status \in Statuses :
             calls' = [calls EXCEPT ![c] =
                IF IsSuccess(status)
                THEN Returned([@ EXCEPT !.status = status], HttpEnvelope(@.request.url))
                ELSE Raised([@ EXCEPT !.status = status], "TransportCallFailure")]
       \/ calls' = [calls EXCEPT ![c] =
             Raised([@ EXCEPT !.status = "network"], "TransportCallFailure")]
    /\ UNCHANGED <<server_configs, tool_map, ipc, idx, stage, procs, runs, discovery, listed>>

\* await multi_mcp.list_all_tools()
list_all_tools ==
    /\ UNCHANGED bridge_vars
    /\ listed' = [op |-> "list_all_tools",
                  value |-> [i \in 1..Len(tool_map) |-> tool_map[i].name]]
    /\ UNCHANGED <<server_configs, tool_map, ipc, idx, stage, procs, runs, discovery, calls>>

\* multi_mcp.get_all_tools(): the tool object of every entry
get_all_tools ==
    /\ UNCHANGED bridge_vars
    /\ listed' = [op |-> "get_all_tools",
                  value |-> [i \in 1..Len(tool_map) |->
                               [name |-> tool_map[i].name,
                                transport |-> tool_map[i].transport]]]
    /\ UNCHANGED <<server_configs, tool_map, ipc, idx, stage, procs, runs, discovery, calls>>

InitCalls == BridgeInit /\ \E configs \in CallConfigLists : Constructed(configs)

NextCalls ==
    \/ NextRegistry
    \/ \E c \in Callers, n \in CallNames, a \in Arguments : call_tool(c, n, a)
    \/ \E c \in Callers : StdioCallHandshake(c)
    \/ \E c \in Callers : StdioCallReturn(c)
    \/ \E c \in Callers : Kill(c)
    \/ \E c \in Callers : Cancel(c)
    \/ \E c \in Callers : HttpRespond(c)
    \/ list_all_tools
    \/ get_all_tools

SpecCalls == InitCalls /\ [][NextCalls]_vars

(***************************************************************************)
(* Fairness.  The event loop runs every task that is ready: the broadcast  *)
(* task when its get, its lock or its put can complete, a handler when the *)
(* lock is handed to it.  FairRead adds clients that keep reading.         *)
(***************************************************************************)
FairLoop ==
    /\ WF_vars(BroadcastGet)
    /\ WF_vars(BroadcastAcquire)
    /\ WF_vars(BroadcastPut)
    /\ \A s \in Subscribers : WF_vars(Register(s)) /\ WF_vars(Unregister(s))

FairRead == \A s \in Subscribers : WF_vars(Read(s))

FairSpec == Spec /\ FairLoop /\ FairRead

FairBurst == SpecBurst /\ FairLoop /\ FairRead

(***************************************************************************)
(* Vocabulary of the claims.                                               *)
(***************************************************************************)
RECURSIVE IsSubseq(_, _)
IsSubseq(a, b) ==
    IF a = <<>> THEN TRUE
    ELSE IF b = <<>> THEN FALSE
    ELSE IF Head(a) = Head(b) THEN IsSubseq(Tail(a), Tail(b))
    ELSE IsSubseq(a, Tail(b))

Texts(q) == [i \in 1..Len(q) |-> q[i].text]

Queries(frames) == [i \in 1..Len(frames) |-> frames[i].query]

\* the texts put into the channel of s so far: those read, then those unread
PutTo(s) == Queries(delivered[s]) \o Texts(client_queue[s])

Range(q) == {q[i] : i \in 1..Len(q)}

\* the broadcast task is suspended in put on the full channel of s
Blocked(s) ==
    /\ bpc = "fanout"
    /\ pending # <<>>
    /\ Head(pending) = s
    /\ Len(client_queue[s]) = QueueMaxsize

\* C1: whenever a subscriber disconnects or its stream is cancelled, its
\* channel is eventually removed from the subscriber set, in every
\* interleaving, also when the broadcast loop is blocked putting an event
\* into that subscriber's full channel while holding the lock.
C1_DisconnectedIsRemoved ==
    \A s \in Subscribers : (spc[s] = "closing") ~> (s \notin clients)

\* C2 as claimed: a subscriber is only ever delivered events whose ingest
\* happened after its channel was registered.
C2_OnlyIngestedAfterRegistration ==
    \A s \in Subscribers : \A t \in Range(PutTo(s)) : t > reg_ingested[s]

\* C2 as amended: a subscriber is only ever delivered events whose fan-out
\* pass began after its channel was registered (pass j fans out event j);
\* an event ingested earlier that still waits for its pass is delivered.
C2_OnlyFannedOutAfterRegistration ==
    \A s \in Subscribers : \A t \in Range(PutTo(s)) : t > reg_fanned[s]

\* a channel registered after a pass over the empty set has been given an event
C2_Witness ==
    \E s \in Subscribers : reg_fanned[s] > 0 /\ delivered[s] # <<>>

\* C3: for every subscriber, the sequence of events it is delivered is in
\* ingest order and holds no event twice: it is a subsequence of the
\* sequence of events put on the central queue.
C3_DeliveredIsSubsequence ==
    \A s \in Subscribers : IsSubseq(PutTo(s), Texts(ingested))

C3_Witness ==
    \E s \in Subscribers : Len(delivered[s]) >= 2 /\ Len(delivered[s]) < Len(ingested)

\* the events ingested after both connections were registered, as s saw them
AfterBoth(q) ==
    SelectSeq(q, LAMBDA t : \A s \in Subscribers : t > reg_ingested[s])

IsPrefix(a, b) == Len(a) <= Len(b) /\ SubSeq(b, 1, Len(a)) = a

BothStreaming == \A s \in Subscribers : spc[s] = "streaming"

\* C4: if two subscribers are both registered and both keep reading, every
\* event ingested after both registrations is eventually delivered to both,
\* and both observe those events in the identical order.
C4_BothReceiveAllInSameOrder ==
    /\ \A k \in 1..MaxEvents :
          (BothStreaming /\ Len(ingested) >= k
              /\ \A s \in Subscribers : reg_ingested[s] < k)
          ~> (\/ \A s \in Subscribers : k \in Range(Queries(delivered[s]))
              \/ ~BothStreaming)
    /\ [](BothStreaming =>
            \A s, t \in Subscribers :
               \/ IsPrefix(AfterBoth(Queries(delivered[s])), AfterBoth(Queries(delivered[t])))
               \/ IsPrefix(AfterBoth(Queries(delivered[t])), AfterBoth(Queries(delivered[s]))))

\* both connections have read two events that were ingested after both registered
C4_Witness ==
    /\ BothStreaming
    /\ \A s \in Subscribers : Len(AfterBoth(Queries(delivered[s]))) >= 2

\* C5 as claimed: while the broadcast loop waits on a channel holding 10
\* unread events, the event it is fanning out (the 11th) has been delivered
\* to no subscriber.
C5_EleventhReachesNobody ==
    \A s \in Subscribers :
       Blocked(s) => \A t \in Subscribers : message.text \notin Range(PutTo(t))

\* C5 as amended: while the broadcast loop waits on a channel holding 10
\* unread events, the event it is fanning out has reached neither that
\* channel nor any channel after it in the pass, no later event has reached
\* any subscriber, and nothing is put into any channel until a read has
\* drained the full channel.
C5_SharedBackpressure ==
    /\ [](\A s \in Subscribers :
            Blocked(s) =>
               /\ \A t \in Range(pending) : message.text \notin Range(PutTo(t))
               /\ \A t \in Subscribers : \A x \in Range(PutTo(t)) : x <= message.text)
    /\ [][\A s \in Subscribers :
            Blocked(s) =>
               \/ Len(client_queue'[s]) < QueueMaxsize
               \/ /\ Blocked(s)'
                  /\ \A t \in Subscribers : Len(client_queue'[t]) <= Len(client_queue[t])]_vars

\* the loop waits on the full channel of one subscriber while another has
\* room and the next event already waits on the central queue
C5_Witness ==
    \E s, t \in Subscribers :
       /\ Blocked(s)
       /\ t \in clients /\ t # s /\ Len(client_queue[t]) < QueueMaxsize
       /\ event_queue # <<>>

\* C6: once a subscriber's channel has been removed from the subscriber set
\* it is terminal: no later fan-out pass puts an event into it (it is in no
\* pass's list), it is never re-added to the set, and the broadcast loop
\* goes on (it is at one of its three suspension points).
C6_RemovedIsTerminal ==
    /\ [](\A s \in Subscribers :
            spc[s] = "closed" => s \notin clients /\ s \notin Range(pending))
    /\ [](bpc \in {"get", "lock", "fanout"})
    /\ [][\A s \in Subscribers :
            spc[s] = "closed" =>
               /\ spc'[s] = "closed"
               /\ s \notin clients'
               /\ client_queue'[s] = client_queue[s]]_vars

\* a pass is under way after a channel was removed
C6_Witness ==
    \E s, t \in Subscribers :
       spc[s] = "closed" /\ bpc = "fanout" /\ t \in Range(pending)

\* C7: ingest never blocks on subscribers: in every reachable state, also
\* when the broadcast loop is stalled on a full channel, an ingest of an
\* event with text can complete, and it appends that event to the tail of
\* the central queue.
C7_IngestNeverBlocks ==
    /\ [](Len(ingested) < PreFilled + MaxBurst => ENABLED IngestBurst)
    /\ [][IngestBurst =>
            /\ event_queue' = Append(event_queue, ingested'[Len(ingested')])
            /\ ingested'[Len(ingested')].text = Len(ingested) + 1
            /\ response' = "200 ok"]_vars

\* the loop is stalled on a full channel and an event waits on the central queue
C7_Witness ==
    \E s \in Subscribers : Blocked(s) /\ event_queue # <<>>

\* no non-empty text can be extracted from a syntactically valid body: it is
\* no object, or neither its message nor its edited_message is an object
\* with a non-empty text
NoExtractableText(update) ==
    /\ update.json # "invalid"
    /\ \/ update.json = "other"
       \/ \A m \in {update.message, update.edited_message} :
             ~(m.kind = "object" /\ m.text > 0)

\* C8: the ingestion endpoint answers success, and leaves the central queue
\* unchanged, for every syntactically valid JSON payload from which no
\* non-empty text can be extracted; it answers a JSON syntax error with 400
\* and leaves the queue unchanged.
C8_NoTextIsAcceptedAndIgnored ==
    [][\A update \in Updates :
         Webhook(update) =>
            /\ update.json = "invalid" =>
                  response' = "400" /\ event_queue' = event_queue
            /\ NoExtractableText(update) =>
                  response' = "200 ignored" /\ event_queue' = event_queue]_vars

\* backend i exposes the tool name n in the current run of initialize: a
\* Stdio backend whose discovery succeeded and listed n, or an HTTP backend
\* with a tool definition named n that has an endpoint
Exposes(i, n) ==
    LET config == server_configs[i]
    IN  IF config.script # ""
        THEN discovery[i].status = "ok" /\ n \in Range(discovery[i].tools)
        ELSE /\ config.host # ""
             /\ \E d \in Range(config.tools) : d.name = n /\ d.name # "" /\ d.endpoint # ""

Exposed == {n \in ToolNames : \E i \in 1..Len(server_configs) : Exposes(i, n)}

LastExposing(n) ==
    CHOOSE i \in 1..Len(server_configs) :
       Exposes(i, n) /\ \A j \in 1..Len(server_configs) : Exposes(j, n) => j <= i

\* the last definition named n among the tools of an HTTP config
LastDef(config, n) ==
    LET k == CHOOSE i \in 1..Len(config.tools) :
                /\ config.tools[i].name = n /\ config.tools[i].endpoint # ""
                /\ \A j \in 1..Len(config.tools) :
                      config.tools[j].name = n /\ config.tools[j].endpoint # "" => j <= i
    IN  config.tools[k]

\* C9: after initialize over any ordered sequence of backend configs the
\* registry holds exactly one entry per tool name, and when several backends
\* expose the same name the entry (transport kind and binding) is the one of
\* the backend processed last.
C9_LastWriteWins ==
    ipc = "done" =>
       /\ \A i, j \in 1..Len(tool_map) : tool_map[i].name = tool_map[j].name => i = j
       /\ \A n \in Exposed :
             /\ n \in Names(tool_map)
             /\ LET config == server_configs[LastExposing(n)]
                    entry == EntryOf(tool_map, n)
                IN  /\ entry.config = config
                    /\ entry.transport = IF config.script # "" THEN "stdio" ELSE "http"
                    /\ config.script = "" =>
                          /\ entry.endpoint = LastDef(config, n).endpoint
                          /\ entry.method \in {"GET", "POST"}
                          /\ entry.method = "GET" <=> LastDef(config, n).method \in {"GET", "get"}

\* initialize is done and two different backends exposed the same name
C9_Witness ==
    /\ ipc = "done"
    /\ \E n \in ToolNames : \E i, j \in 1..Len(server_configs) :
          /\ i < j /\ Exposes(i, n) /\ Exposes(j, n)
          /\ server_configs[i] # server_configs[j]
          /\ server_configs[i].script # "" /\ server_configs[j].script = ""

\* C10: failure isolation in initialize: whatever subset of Stdio backends
\* fails discovery (spawn failure, handshake error, protocol error),
\* initialize does not raise, it can always go on until it completes, and
\* every tool of every healthy backend, earlier or later in the sequence, is
\* registered.
C10_FailureIsolation ==
    /\ [](ipc # "raised")
    /\ [](ipc = "running" => ENABLED NextRegistry)
    /\ [](ipc = "done" => \A n \in Exposed : n \in Names(tool_map))

\* initialize is done, a Stdio backend failed and a later one was healthy
C10_Witness ==
    /\ ipc = "done"
    /\ \E i, j \in 1..Len(server_configs) :
          /\ i < j
          /\ discovery[i].status = "failed"
          /\ discovery[j].status = "ok" /\ discovery[j].tools # <<>>
          /\ Range(discovery[j].tools) \subseteq Names(tool_map)

(***************************************************************************)
(* Claims about call_tool and the list operations.                         *)
(***************************************************************************)
\* the calls that are suspended with a subprocess of their own
StdioInFlight == {c \in Callers : calls[c].pc \in {"handshake", "awaiting"}}

\* C11: calling a tool name that is not in the registry ends at once with an
\* UnknownTool failure, without spawning a subprocess, without sending an
\* HTTP request and without changing the registry.
C11_UnknownToolFailsAtOnce ==
    [][\A c \in Callers, n \in CallNames, a \in Arguments :
          call_tool(c, n, a) /\ n \notin Names(tool_map) =>
             /\ calls'[c].pc = "raised"
             /\ calls'[c].error = "UnknownTool"
             /\ calls'[c].spawns = 0 /\ calls'[c].sends = 0 /\ calls'[c].requests = 0
             /\ calls'[c].proc = "none"
             /\ procs' = procs
             /\ tool_map' = tool_map]_vars

\* a name outside a non-empty registry was called and the call has failed
C11_Witness ==
    \E c \in Callers :
       /\ tool_map # <<>>
       /\ calls[c].tool # "" /\ calls[c].tool \notin Names(tool_map)
       /\ calls[c].pc = "raised" /\ calls[c].error = "UnknownTool"

\* C12: every successful call returns the same envelope shape, a content
\* field that holds a text string (content.text), whether a Stdio or an HTTP
\* backend produced it.
C12_UniformEnvelope ==
    \A c \in Callers :
       calls[c].pc = "returned" => calls[c].result.content.kind = "namespace"

\* C13: every Stdio tool call and every discovery round-trip has a subprocess
\* of its own while it runs and has terminated it when it finishes, on every
\* exit path (success, handshake or protocol error, cancellation): the live
\* tool subprocesses are exactly those of the operations in flight whose
\* subprocess was not killed, and whenever no Stdio operation is in flight
\* their number is zero.
C13_NoSubprocessOutlivesItsOperation ==
    /\ procs = (IF stage # "none" THEN 1 ELSE 0)
               + Cardinality({c \in Callers : calls[c].proc = "live"})
    /\ \A c \in Callers : c \notin StdioInFlight => calls[c].proc = "none"
    /\ (stage = "none" /\ StdioInFlight = {}) => procs = 0

\* nothing is in flight, one Stdio call was cancelled and another failed
\* after its request was sent, and the last discovery failed after its spawn
C13_Witness ==
    /\ stage = "none" /\ StdioInFlight = {} /\ procs = 0
    /\ \E c, d \in Callers :
          /\ calls[c].error = "Cancelled" /\ calls[c].spawns = 1
          /\ calls[d].error = "TransportCallFailure" /\ calls[d].sends = 1
    /\ ipc = "done" /\ discovery[Len(discovery)].status = "failed"

\* C14: two concurrent Stdio calls each use a subprocess of their own and
\* share no mutable state: a step of one call, or the death of its
\* subprocess, leaves the other call as it was; a call whose subprocess was
\* killed can only fail; a call whose subprocess lives can complete, and
\* what a Stdio call returns is the answer of its own backend to its tool.
C14_ConcurrentStdioCallsAreIsolated ==
    /\ [][\A c, d \in Callers :
             c # d /\ calls'[c] # calls[c] => calls'[d] = calls[d]]_vars
    /\ [][\A c \in Callers :
             calls[c].proc = "dead" /\ calls'[c].pc # calls[c].pc =>
                calls'[c].pc = "raised"]_vars
    /\ [](\A c \in Callers :
             calls[c].pc = "awaiting" /\ calls[c].proc = "live" =>
                ENABLED StdioCallReturn(c))
    /\ [](\A c \in Callers :
             calls[c].pc = "returned" /\ calls[c].entry.transport = "stdio" =>
                \A i \in 1..Len(calls[c].result.content.items) :
                   calls[c].result.content.items[i].text
                      = calls[c].entry.config.script \o ":" \o calls[c].tool)

\* two Stdio calls are in flight, the subprocess of one was killed after its
\* request was sent, the other one's lives
C14_Witness ==
    \E c, d \in Callers :
       /\ calls[c].pc = "awaiting" /\ calls[c].proc = "dead"
       /\ calls[d].pc = "awaiting" /\ calls[d].proc = "live"
       /\ calls[c].tool # calls[d].tool

\* C15: an HTTP call sends its arguments as query parameters of a GET
\* request when the registered method is GET, and as the JSON body of a POST
\* request when the registered method is POST; a tool definition without a
\* method is registered with the method POST.
C15_HttpRequestFollowsMethod ==
    /\ \A c \in Callers :
          calls[c].requests > 0 =>
             LET entry == calls[c].entry
                 request == calls[c].request
             IN  /\ entry.method = "GET" =>
                       /\ request.verb = "GET"
                       /\ request.params = calls[c].arguments /\ request.json = ""
                 /\ entry.method = "POST" =>
                       /\ request.verb = "POST"
                       /\ request.json = calls[c].arguments /\ request.params = ""
    /\ \A i \in 1..Len(tool_map) :
          /\ tool_map[i].transport = "http"
          /\ LastDef(tool_map[i].config, tool_map[i].name).method = ""
          => tool_map[i].method = "POST"

\* one call has sent a GET request, the other a POST request for a tool
\* that was defined without a method
C15_Witness ==
    \E c, d \in Callers :
       /\ calls[c].requests = 1 /\ calls[c].request.verb = "GET"
       /\ calls[c].request.params # ""
       /\ calls[d].requests = 1 /\ calls[d].request.verb = "POST"
       /\ calls[d].request.json # ""
       /\ LastDef(calls[d].entry.config, calls[d].tool).method = ""

\* C16: an HTTP call whose request is answered with a status outside 2xx, or
\* fails on the network, ends in a failure raised to the caller and never
\* returns an envelope; an HTTP call that returns was answered 2xx.
C16_HttpFailureIsRaised ==
    \A c \in Callers :
       /\ calls[c].status \in (Statuses \ {"2xx"}) \cup {"network"} =>
             /\ calls[c].pc = "raised"
             /\ calls[c].error = "TransportCallFailure"
             /\ calls[c].result = NoResult
       /\ calls[c].pc = "returned" /\ calls[c].entry.transport = "http" =>
             calls[c].status = "2xx"

\* one HTTP call was answered with a server error, the other got no answer
C16_Witness ==
    \E c, d \in Callers :
       /\ calls[c].status = "5xx" /\ calls[c].pc = "raised"
       /\ calls[d].status = "network" /\ calls[d].pc = "raised"

\* C17: no retry: one call makes at most one attempt on its transport, one
\* HTTP request, or one subprocess spawn with at most one call request, and
\* a call that failed on its transport has ended with exactly one attempt
\* made.
C17_AtMostOneAttempt ==
    \A c \in Callers :
       /\ calls[c].spawns + calls[c].requests <= 1
       /\ calls[c].sends <= calls[c].spawns
       /\ calls[c].error = "TransportCallFailure" =>
             /\ calls[c].pc = "raised"
             /\ calls[c].spawns + calls[c].requests = 1

\* an HTTP call failed after its one request, and a Stdio call failed after
\* its one spawn and one call request
C17_Witness ==
    \E c, d \in Callers :
       /\ calls[c].pc = "raised" /\ calls[c].error = "TransportCallFailure"
       /\ calls[c].requests = 1
       /\ calls[d].pc = "raised" /\ calls[d].error = "TransportCallFailure"
       /\ calls[d].spawns = 1 /\ calls[d].sends = 1

(***************************************************************************)
(* Claims about the subscriber set and the channels.                       *)
(***************************************************************************)
\* C18: the subscriber set is added to and removed from only by a task that
\* holds the lock (it takes the free lock or is handed it, and no one else
\* holds it); a fan-out pass holds the lock from its start to its end and
\* the set does not change during a pass; each pass puts the event into
\* exactly the channels that were registered when the pass acquired the
\* lock.
C18_SetChangesAndPassesUnderLock ==
    /\ [][clients' # clients =>
             /\ lock_owner = "none" /\ lock_owner' = "none"
             /\ \E s \in Subscribers :
                   /\ clients' \in {clients \cup {s}, clients \ {s}}
                   /\ LockFree \/ LockGranted(s)]_vars
    /\ [](bpc = "fanout" => lock_owner = Bcast)
    /\ [][bpc = "fanout" => clients' = clients]_vars
    /\ [](bpc = "fanout" =>
             /\ \A i, j \in 1..Len(pending) : pending[i] = pending[j] => i = j
             /\ \A s \in Subscribers :
                   (s \in clients /\ s \notin Range(pending))
                      <=> message.text \in Range(PutTo(s)))
    /\ [][bpc = "fanout" /\ bpc' = "get" =>
             \A s \in Subscribers :
                s \in clients <=>
                   message.text \in Range(Queries(delivered'[s]) \o Texts(client_queue'[s]))]_vars

\* a pass over two channels has put into one of them, and a connection that
\* was closed meanwhile waits for the lock
C18_Witness ==
    /\ bpc = "fanout" /\ Cardinality(clients) = 2 /\ Len(pending) = 1
    /\ \E s \in Subscribers : spc[s] = "closing"

\* C19: in every reachable state each subscriber channel holds at most 10
\* undelivered events, and they are read in the order in which the broadcast
\* loop put them: a put appends the event at the end of the channel, a read
\* delivers the event at its front and removes it, and nothing else changes
\* a channel.
C19_ChannelIsBoundedFifo ==
    /\ [](\A s \in Subscribers : Len(client_queue[s]) <= QueueMaxsize)
    /\ [][\A s \in Subscribers :
             client_queue'[s] # client_queue[s] =>
                \/ /\ client_queue'[s] = Append(client_queue[s], message)
                   /\ delivered'[s] = delivered[s]
                \/ /\ client_queue[s] # <<>>
                   /\ client_queue'[s] = Tail(client_queue[s])
                   /\ delivered'[s] = Append(delivered[s], Frame(Head(client_queue[s])))]_vars
    /\ [][\A s \in Subscribers :
             delivered'[s] # delivered[s] => client_queue'[s] # client_queue[s]]_vars

\* a channel is full again after its client has read the oldest event, and
\* the broadcast loop waits to put the next event into it
C19_Witness ==
    \E s \in Subscribers :
       /\ Blocked(s)
       /\ delivered[s] # <<>>
       /\ Queries(delivered[s]) = [i \in 1..Len(delivered[s]) |-> i]

(***************************************************************************)
(* Claims about the lifetime of the registry.                              *)
(***************************************************************************)
\* C20: the name-to-descriptor map changes only in a step of a running
\* initialize; no step of a call (successful, failing or for an unknown
\* name) and no list operation changes it, so once initialize has finished
\* the map stays as it is until initialize is called again.
C20_MapChangesOnlyInInitialize ==
    /\ [][tool_map' # tool_map => ipc = "running"]_vars
    /\ [][calls' # calls \/ listed' # listed => tool_map' = tool_map]_vars
    /\ [][ipc = "done" /\ ipc' = "done" => tool_map' = tool_map]_vars

\* initialize has finished with tools registered; since then one call has
\* returned, one has failed for an unknown name, and the tools were listed
C20_Witness ==
    /\ ipc = "done" /\ tool_map # <<>>
    /\ listed.op # "none" /\ Len(listed.value) = Len(tool_map)
    /\ \E c, d \in Callers :
          /\ calls[c].pc = "returned" /\ calls[c].tool \in Names(tool_map)
          /\ calls[d].pc = "raised" /\ calls[d].error = "UnknownTool"

\* C21: re-initialization is a full rebuild of the map: whenever an
\* initialize has completed, the names in the map are exactly the names
\* that the backends exposed in that run; no entry survives from an earlier
\* run whose backend now fails discovery or no longer lists the tool.
C21_InitializeRebuildsTheMap ==
    ipc = "done" => Names(tool_map) = Exposed

\* the names of the tool definitions of a config that have a name and an
\* endpoint
ValidNames(config) ==
    {d.name : d \in {e \in Range(config.tools) : e.name # "" /\ e.endpoint # ""}}

\* C22: configuration errors are contained per entry.  Processing a config
\* with neither a script nor a host, or an HTTP backend with an empty tool
\* list, leaves the map as it is; processing an HTTP backend adds exactly
\* the names of its tool definitions that have a name and an endpoint, and
\* binds each of them to this backend; no entry without a name or without
\* an endpoint is ever in the map of an HTTP tool; in each case initialize
\* goes on to the next config and does not raise, and when it is done every
\* tool of every backend is registered.
C22_ConfigErrorsAreContained ==
    /\ [][ipc = "running" /\ stage = "none" /\ server_configs[idx].script = "" =>
             LET config == server_configs[idx]
             IN  /\ Names(tool_map') = Names(tool_map) \cup
                       (IF config.host = "" THEN {} ELSE ValidNames(config))
                 /\ config.host = "" \/ ValidNames(config) = {} => tool_map' = tool_map
                 /\ config.host # "" =>
                       \A n \in ValidNames(config) : EntryOf(tool_map', n).config = config
                 /\ ipc' # "raised"
                 /\ IF idx < Len(server_configs)
                    THEN ipc' = "running" /\ idx' = idx + 1
                    ELSE ipc' = "done"]_vars
    /\ [](\A i \in 1..Len(tool_map) :
             tool_map[i].transport = "http" =>
                tool_map[i].name # "" /\ tool_map[i].endpoint # "")
    /\ [](ipc = "done" => \A n \in Exposed : n \in Names(tool_map))

\* initialize is done over a config of neither shape, or an HTTP backend
\* without tools, followed by an HTTP backend that has a tool definition
\* without an endpoint and a valid one, which is registered
C22_Witness ==
    /\ ipc = "done" /\ Len(server_configs) = 2
    /\ server_configs[1].script = "" /\ ValidNames(server_configs[1]) = {}
    /\ server_configs[2].script = "" /\ server_configs[2].host # ""
    /\ \E d \in Range(server_configs[2].tools) : d.name = "" \/ d.endpoint = ""
    /\ ValidNames(server_configs[2]) # {}
    /\ ValidNames(server_configs[2]) \subseteq Names(tool_map)

\* the place in server_configs of the backend that registered an entry
BackendOf(entry) ==
    CHOOSE i \in 1..Len(server_configs) : server_configs[i] = entry.config

\* the names of what a list operation returned, in its order
ListedNames ==
    [i \in 1..Len(listed.value) |->
        IF listed.op = "get_all_tools" THEN listed.value[i].name ELSE listed.value[i]]

\* C23: a list operation returns one descriptor per registered name, in
\* registration order, the order in which the backend configs were
\* processed: a descriptor never comes after the descriptor of a backend
\* processed later, also when a later backend has replaced an earlier
\* backend's tool of the same name.
C23_ListedInRegistrationOrder ==
    [][listed' # listed =>
          /\ Len(listed'.value) = Len(tool_map)
          /\ Range(ListedNames') = Names(tool_map)
          /\ \A i, j \in 1..Len(listed'.value) :
                i < j =>
                   BackendOf(EntryOf(tool_map, ListedNames'[i]))
                      <= BackendOf(EntryOf(tool_map, ListedNames'[j]))]_vars

\* C24: the bridge has no deadlock: while clients keep reading, a fan-out
\* pass that has begun eventually completes, and a connection that waits
\* for the lock to subscribe or to unsubscribe eventually gets it; the
\* broadcast loop never waits forever for room in a channel whose connection
\* waits for the lock that the loop holds.
C24_PassAndLockWaitersComplete ==
    /\ (bpc = "fanout") ~> (bpc = "get")
    /\ \A s \in Subscribers :
          (spc[s] \in {"registering", "closing"}) ~> (spc[s] \in {"streaming", "closed"})

\* C25: discovery of a Stdio backend is all-or-nothing for the map: a step
\* in which the discovery of a backend fails (at its spawn, its handshake or
\* its tool-list request) leaves the map as it is, and while a discovery is
\* under way the map changes only in the step that ends it successfully, so
\* after a failed discovery the map is what it was before the backend was
\* processed.
C25_FailedDiscoveryLeavesTheMap ==
    /\ [][\A i \in 1..Len(discovery) :
             /\ Len(discovery') = Len(discovery)
             /\ discovery[i].status = "pending" /\ discovery'[i].status = "failed"
             => tool_map' = tool_map]_vars
    /\ [][stage # "none" /\ tool_map' # tool_map =>
             stage = "list" /\ discovery'[idx].status = "ok"]_vars
    /\ [][stage' # "none" => tool_map' = tool_map]_vars

\* in a second run of initialize the discovery of a Stdio backend has
\* failed, and the tools it registered in the first run are still in the map
C25_Witness ==
    /\ runs = 2
    /\ \E i \in 1..Len(discovery) :
          /\ discovery[i].status = "failed"
          /\ server_configs[i].script # ""
          /\ \E j \in 1..Len(tool_map) : tool_map[j].config = server_configs[i]
====
